---------------------------- MODULE Spec2Model ----------------------------
(***************************************************************************)
(* markus.testing.MetricsMock: a recording metrics backend used as a       *)
(* context manager.  Each recorder keeps a list of records                 *)
(* (fun_name, stat, value, tags); __enter__ resets the list and installs   *)
(* the recorder through markus.main._override_metrics, __exit__ uninstalls *)
(* whatever is installed; filter_records / has_record query the list.      *)
(***************************************************************************)
EXTENDS Integers, Sequences, FiniteSets, TLC

VARIABLES
    records,         \* records[r]: self.records of recorder r
    _metrics_impls,  \* what the last _override_metrics call installed
    scope,           \* scope[r]: number of open `with r:` blocks
    calls,           \* calls[r]: emission calls on r since its list was last reset
    last             \* the call that was made last: what it returned or raised,
                     \* (dropped) the list that self.records no longer refers to
                     \* and (replaced) what was installed until __enter__

vars == <<records, _metrics_impls, scope, calls, last>>

-----------------------------------------------------------------------------
(* Bounds of the model *)

\* Cap on the number of records held by all recorders together.
MaxRecords == 2

\* Cap on the number of `with` blocks open at a time, of all recorders together.
MaxOpen == 2

\* The MetricsMock instances of the test process.
Recorders == {"mm1", "mm2"}

-----------------------------------------------------------------------------
(* Python values *)

\* None, True or False, and a list with the given items.
PyNone == [py |-> "None"]
PyBool(b) == [py |-> "bool", value |-> b]
PyList(items) == [py |-> "list", items |-> items]

\* bool(x): None and the empty list are false.
Truthy(x) ==
    CASE x.py = "None" -> FALSE
      [] x.py = "bool" -> x.value
      [] x.py = "list" -> x.items # <<>>

\* markus.INCR, GAUGE, TIMING, HISTOGRAM.
INCR == "incr"
GAUGE == "gauge"
TIMING == "timing"
HISTOGRAM == "histogram"

FunNames == {INCR, GAUGE, TIMING, HISTOGRAM}

\* The alphabet of tag strings, in Python's string order.
TagAlphabet == <<"a", "b">>

\* x < y on tag strings.
StrLess(x, y) ==
    (CHOOSE i \in 1..Len(TagAlphabet) : TagAlphabet[i] = x)
        < (CHOOSE i \in 1..Len(TagAlphabet) : TagAlphabet[i] = y)

\* Inserting one string into a sorted sequence, after the strings not above it.
RECURSIVE Insert(_, _)
Insert(x, s) ==
    IF s = <<>> THEN <<x>>
    ELSE IF StrLess(x, Head(s)) THEN <<x>> \o s
    ELSE <<Head(s)>> \o Insert(x, Tail(s))

\* list(sorted(s)) of a sequence of strings.
RECURSIVE sorted(_)
sorted(s) == IF s = <<>> THEN <<>> ELSE Insert(s[Len(s)], sorted(SubSeq(s, 1, Len(s) - 1)))


-----------------------------------------------------------------------------
(* Arguments of the calls *)

\* Keyword arguments (stat, value, tags=None) over the given stats, values and tag lists.
KeywordArgs(stats, values, tagLists) ==
    {[stat |-> s, value |-> v] : s \in stats, v \in values}
        \cup {[stat |-> s, value |-> v, tags |-> PyList(t)] :
                s \in stats, v \in values, t \in tagLists}

\* Keyword arguments that leave the value out: incr(stat, value=1, tags=None) only.
DefaultValueArgs(stats, tagLists) ==
    {[stat |-> s] : s \in stats}
        \cup {[stat |-> s, tags |-> PyList(t)] : s \in stats, t \in tagLists}

\* What the code under test emits: each method is called for one metric, with
\* an explicit value or (incr) none, with a tag list or none.
EmittedTags == {<<"b", "a">>}
EmittedValues == {2}
IncrArgs ==
    KeywordArgs({"req.count"}, EmittedValues, EmittedTags)
        \cup DefaultValueArgs({"req.count"}, EmittedTags)
GaugeArgs == KeywordArgs({"mem.used"}, EmittedValues, EmittedTags)
TimingArgs == KeywordArgs({"req.latency"}, EmittedValues, EmittedTags)
HistogramArgs == KeywordArgs({"req.size"}, EmittedValues, EmittedTags)

\* The exception a `with` body may raise; NoExc when it completes normally.
NoExc == "no exception"
BodyExc == "ValueError"

-----------------------------------------------------------------------------
(* MetricsMock *)

\* The tags argument, None when left out.
TagsArg(args) == IF "tags" \in DOMAIN args THEN args.tags ELSE PyNone

\* A variant of _add_record that inserts the new record first.
add_record_first(recs, fun_name, stat, value, tags) ==
    <<<<fun_name, stat, value, tags>>>> \o recs

\* self.records.append((fun_name, stat, value, tags))
_add_record(recs, fun_name, stat, value, tags) ==
    Append(recs, <<fun_name, stat, value, tags>>)

\* A variant of incr that does not pass its tags on.
incr_without_tags(recs, args) ==
    Append(recs, <<INCR, args.stat,
                   IF "value" \in DOMAIN args THEN args.value ELSE 1, PyNone>>)

\* self.records after incr(stat, value=1, tags=None).
incr(recs, args) ==
    _add_record(recs, INCR, args.stat,
                IF "value" \in DOMAIN args THEN args.value ELSE 1, TagsArg(args))

\* A variant of gauge that keeps only the newest record of a gauge.
gauge_overwrites(recs, args) ==
    LET Other(record) == ~(record[1] = GAUGE /\ record[2] = args.stat)
    IN  Append(SelectSeq(recs, Other), <<GAUGE, args.stat, args.value, TagsArg(args)>>)

\* self.records after gauge(stat, value, tags=None).
gauge(recs, args) == _add_record(recs, GAUGE, args.stat, args.value, TagsArg(args))

\* self.records after timing(stat, value, tags=None).
timing(recs, args) == _add_record(recs, TIMING, args.stat, args.value, TagsArg(args))

\* self.records after histogram(stat, value, tags=None).
histogram(recs, args) == _add_record(recs, HISTOGRAM, args.stat, args.value, TagsArg(args))

\* markus.main._override_metrics(impls): the installed backends become impls,
\* a list holding one recorder, or None.
_override_metrics(impls) == impls

\* A variant of __enter__ that keeps the list it finds.
enter_keeps_records(recs) == recs

\* self.records after __enter__.
enter_records(recs) == <<>>

\* A variant of __enter__ that adds self to the backends already installed.
enter_stacks(self) ==
    IF _metrics_impls = PyNone THEN PyList(<<self>>)
    ELSE PyList(Append(_metrics_impls.items, self))

\* A variant of __enter__ that installs self only when nothing is installed.
enter_unless_taken(self) ==
    IF _metrics_impls = PyNone THEN PyList(<<self>>) ELSE _metrics_impls

\* The backends installed by __enter__ of recorder self.
enter_impls(self) == _override_metrics(PyList(<<self>>))

\* A variant of __exit__ that empties the list.
exit_clears_records(recs) == <<>>

\* self.records after __exit__.
exit_records(recs) == recs

\* A variant of __exit__ that uninstalls only when self is what is installed.
exit_if_installed(self) ==
    IF _metrics_impls = PyList(<<self>>) THEN PyNone ELSE _metrics_impls

\* A variant of __exit__ that leaves what is installed.
exit_keeps_installed(self) == _metrics_impls

\* The backends installed by __exit__ of recorder self, which it does not look at.
exit_impls(self) == _override_metrics(PyNone)

\* A variant of __exit__ that returns True.
exit_returns_true == PyBool(TRUE)

\* What __exit__ returns: it has no return statement.
exit_return == PyNone

\* What get_records returns.
get_records(recs) == recs

\* A variant of clear_records that drops the oldest record only.
clear_drops_oldest(recs) == IF recs = <<>> THEN <<>> ELSE Tail(recs)

\* self.records after clear_records.
clear_records(recs) == <<>>

\* What print_records writes, one line per record.
print_records(recs) == [i \in 1..Len(get_records(recs)) |-> get_records(recs)[i]]

-----------------------------------------------------------------------------
(* filter_records and has_record *)

\* A call that returned v, and one that raised e.
Return(v) == [raised |-> "none", ret |-> v]
Raise(e) == [raised |-> e]

\* fun_name is None or fun_name == record_fun_name
match_fun_name(criteria, record_fun_name) ==
    "fun_name" \notin DOMAIN criteria \/ criteria.fun_name = record_fun_name

\* stat is None or stat == record_stat
match_stat(criteria, record_stat) ==
    "stat" \notin DOMAIN criteria \/ criteria.stat = record_stat

\* value is None or value == record_value
match_value(criteria, record_value) ==
    "value" \notin DOMAIN criteria \/ criteria.value = record_value

\* tags is None or list(sorted(tags)) == list(sorted(record_tags)):
\* "True", "False", or "TypeError" when sorted() is given None.
match_tags(criteria, record_tags) ==
    IF "tags" \notin DOMAIN criteria THEN "True"
    ELSE IF record_tags = PyNone THEN "TypeError"
    ELSE IF sorted(criteria.tags.items) = sorted(record_tags.items) THEN "True"
    ELSE "False"

\* The condition of the list comprehension: `and` stops at the first false operand.
condition(criteria, record) ==
    IF ~match_fun_name(criteria, record[1]) THEN "False"
    ELSE IF ~match_stat(criteria, record[2]) THEN "False"
    ELSE IF ~match_value(criteria, record[3]) THEN "False"
    ELSE match_tags(criteria, record[4])

\* The list comprehension over the records left, acc holding the records kept so far.
RECURSIVE comprehension(_, _, _)
comprehension(criteria, recs, acc) ==
    IF recs = <<>> THEN Return(acc)
    ELSE LET c == condition(criteria, Head(recs))
         IN  IF c = "TypeError" THEN Raise("TypeError")
             ELSE comprehension(criteria, Tail(recs),
                                IF c = "True" THEN Append(acc, Head(recs)) ELSE acc)

\* filter_records(fun_name=None, stat=None, value=None, tags=None)
filter_records(recs, criteria) == comprehension(criteria, get_records(recs), <<>>)

\* A variant of has_record that does not pass its tags on.
has_record_without_tags(recs, criteria) ==
    LET found == filter_records(recs, [k \in DOMAIN criteria \ {"tags"} |-> criteria[k]])
    IN  IF found.raised # "none" THEN found ELSE Return(found.ret # <<>>)

\* has_record(...): bool(self.filter_records(...)) with the same four criteria.
has_record(recs, criteria) ==
    LET found == filter_records(recs, criteria)
    IN  IF found.raised # "none" THEN found ELSE Return(found.ret # <<>>)

-----------------------------------------------------------------------------
(* The test process: recorders are constructed, then their methods are called *)

\* The number of records held by the recorders of S together.
RECURSIVE TotalRecords(_, _)
TotalRecords(recs, S) ==
    IF S = {} THEN 0
    ELSE LET r == CHOOSE x \in S : TRUE
         IN  Len(recs[r]) + TotalRecords(recs, S \ {r})

\* The number of `with` blocks of the recorders of S that are open.
RECURSIVE OpenScopes(_, _)
OpenScopes(sc, S) ==
    IF S = {} THEN 0
    ELSE LET r == CHOOSE x \in S : TRUE
         IN  sc[r] + OpenScopes(sc, S \ {r})

\* An emission call as `calls` keeps it.
Call(fun_name, args) == [fun_name |-> fun_name, args |-> args]

\* self.records after the emission method named fun_name is called with args.
Emission(fun_name, recs, args) ==
    CASE fun_name = INCR -> incr(recs, args)
      [] fun_name = GAUGE -> gauge(recs, args)
      [] fun_name = TIMING -> timing(recs, args)
      [] fun_name = HISTOGRAM -> histogram(recs, args)

\* MetricsMock(): __init__ sets self.records = []; nothing is installed.
Init ==
    /\ records = [r \in Recorders |-> <<>>]
    /\ _metrics_impls = PyNone
    /\ scope = [r \in Recorders |-> 0]
    /\ calls = [r \in Recorders |-> <<>>]
    /\ last = [op |-> "__init__"]

\* What every emission call does, apart from the record it appends.
Emit(r, fun_name, args) ==
    /\ TotalRecords(records, Recorders) < MaxRecords
    /\ calls' = [calls EXCEPT ![r] = Append(@, Call(fun_name, args))]
    /\ last' = [op |-> fun_name, self |-> r, args |-> args, result |-> Return(PyNone)]
    /\ UNCHANGED <<_metrics_impls, scope>>

Incr(r, args) ==
    /\ Emit(r, INCR, args)
    /\ records' = [records EXCEPT ![r] = incr(@, args)]

Gauge(r, args) ==
    /\ Emit(r, GAUGE, args)
    /\ records' = [records EXCEPT ![r] = gauge(@, args)]

Timing(r, args) ==
    /\ Emit(r, TIMING, args)
    /\ records' = [records EXCEPT ![r] = timing(@, args)]

Histogram(r, args) ==
    /\ Emit(r, HISTOGRAM, args)
    /\ records' = [records EXCEPT ![r] = histogram(@, args)]

\* `with r:` is entered: r.__enter__().
Enter(r) ==
    /\ OpenScopes(scope, Recorders) < MaxOpen
    /\ records' = [records EXCEPT ![r] = enter_records(@)]
    /\ _metrics_impls' = enter_impls(r)
    /\ scope' = [scope EXCEPT ![r] = @ + 1]
    /\ calls' = [calls EXCEPT ![r] = <<>>]
    /\ last' = [op |-> "__enter__", self |-> r, result |-> Return(r),
                dropped |-> records[r], replaced |-> _metrics_impls]

\* What leaves a `with` block whose body ended with exc, once __exit__ returned ret:
\* the exception, unless ret is true.
Propagates(exc, ret) == IF exc # NoExc /\ ~Truthy(ret) THEN exc ELSE NoExc

\* A `with r:` block is left, its body having completed (NoExc) or raised:
\* r.__exit__(exc_type, exc_value, traceback).
Exit(r, exc) ==
    /\ scope[r] > 0
    /\ records' = [records EXCEPT ![r] = exit_records(@)]
    /\ _metrics_impls' = exit_impls(r)
    /\ scope' = [scope EXCEPT ![r] = @ - 1]
    /\ last' = [op |-> "__exit__", self |-> r, exc |-> exc,
                result |-> Return(exit_return),
                propagates |-> Propagates(exc, exit_return)]
    /\ UNCHANGED calls

GetRecords(r) ==
    /\ last' = [op |-> "get_records", self |-> r, result |-> Return(get_records(records[r]))]
    /\ UNCHANGED <<records, _metrics_impls, scope, calls>>

PrintRecords(r) ==
    /\ last' = [op |-> "print_records", self |-> r, result |-> Return(PyNone),
                printed |-> print_records(records[r])]
    /\ UNCHANGED <<records, _metrics_impls, scope, calls>>

ClearRecords(r) ==
    /\ records' = [records EXCEPT ![r] = clear_records(@)]
    /\ calls' = [calls EXCEPT ![r] = <<>>]
    /\ last' = [op |-> "clear_records", self |-> r, result |-> Return(PyNone),
                dropped |-> records[r]]
    /\ UNCHANGED <<_metrics_impls, scope>>

Next ==
    \E r \in Recorders :
        \/ \E args \in IncrArgs : Incr(r, args)
        \/ \E args \in GaugeArgs : Gauge(r, args)
        \/ \E args \in TimingArgs : Timing(r, args)
        \/ \E args \in HistogramArgs : Histogram(r, args)
        \/ Enter(r)
        \/ \E exc \in {NoExc, BodyExc} : Exit(r, exc)
        \/ GetRecords(r)
        \/ PrintRecords(r)
        \/ ClearRecords(r)

Spec == Init /\ [][Next]_vars

-----------------------------------------------------------------------------
(* Queries: a test emits inside `with r:` and then asserts on what was recorded *)

\* What the recorder of a query test holds: calls of two methods over two
\* stats and two values, with no tags or one of three tag lists.
Stats == {"req.count", "mem.used"}
Values == {1, 2}
RecordedTags == {<<>>, <<"a">>, <<"a", "b">>}
RecordedCalls ==
    {Call(f, args) : f \in {INCR, GAUGE}, args \in KeywordArgs(Stats, Values, RecordedTags)}

\* The tag lists a query asks for.
QueryTags == {<<>>, <<"a">>, <<"a", "a">>, <<"a", "b">>, <<"b", "a">>}

\* Nothing, or one element of S: an argument that is left out or given.
Optional(S) == {<<>>} \cup {<<x>> : x \in S}

\* The keyword arguments of a call that gives the arguments that are not <<>>.
Keywords(f, s, v, t) ==
    [k \in {n \in {"fun_name", "stat", "value", "tags"} :
                \/ n = "fun_name" /\ f # <<>>
                \/ n = "stat" /\ s # <<>>
                \/ n = "value" /\ v # <<>>
                \/ n = "tags" /\ t # <<>>} |->
        CASE k = "fun_name" -> f[1]
          [] k = "stat" -> s[1]
          [] k = "value" -> v[1]
          [] k = "tags" -> PyList(t[1])]

\* The keyword arguments of a query: each of fun_name, stat, value, tags is
\* given or left out (None).
Criteria ==
    {Keywords(f, s, v, t) :
        f \in Optional({INCR, GAUGE}), s \in Optional(Stats),
        v \in Optional(Values), t \in Optional(QueryTags)}

\* The sequences over S of length at most n.
SeqsUpTo(S, n) == UNION {[1..k -> S] : k \in 0..n}

\* self.records after the calls cs were made on an empty list, in order.
RECURSIVE Replay(_)
Replay(cs) ==
    IF cs = <<>> THEN <<>>
    ELSE LET c == cs[Len(cs)]
         IN  Emission(c.fun_name, Replay(SubSeq(cs, 1, Len(cs) - 1)), c.args)

\* One recorder is inside its `with` block and has received the calls cs.
QueryInit ==
    \E r \in {CHOOSE x \in Recorders : TRUE}, cs \in SeqsUpTo(RecordedCalls, MaxRecords) :
        /\ calls = [x \in Recorders |-> IF x = r THEN cs ELSE <<>>]
        /\ records = [x \in Recorders |-> Replay(calls[x])]
        /\ _metrics_impls = enter_impls(r)
        /\ scope = [x \in Recorders |-> IF x = r THEN 1 ELSE 0]
        /\ last = IF cs = <<>>
                  THEN [op |-> "__enter__", self |-> r, result |-> Return(r),
                        dropped |-> <<>>, replaced |-> PyNone]
                  ELSE [op |-> cs[Len(cs)].fun_name, self |-> r,
                        args |-> cs[Len(cs)].args, result |-> Return(PyNone)]

\* The test makes one query on the recorder it entered, once the calls are made.
Asserting(r) == scope[r] > 0 /\ last.op \notin {"filter_records", "has_record"}

FilterRecords(r, criteria) ==
    /\ last' = [op |-> "filter_records", self |-> r, args |-> criteria,
                result |-> filter_records(records[r], criteria)]
    /\ UNCHANGED <<records, _metrics_impls, scope, calls>>

HasRecord(r, criteria) ==
    /\ last' = [op |-> "has_record", self |-> r, args |-> criteria,
                result |-> has_record(records[r], criteria)]
    /\ UNCHANGED <<records, _metrics_impls, scope, calls>>

QueryNext ==
    \/ \E r \in Recorders : Asserting(r) /\ \E criteria \in Criteria : FilterRecords(r, criteria)
    \/ \E r \in Recorders : Asserting(r) /\ \E criteria \in Criteria : HasRecord(r, criteria)

QuerySpec == QueryInit /\ [][QueryNext]_vars

-----------------------------------------------------------------------------
(* A test that asserts between its other calls *)

\* The criteria of the assertions: none, a tag list, and the method, stat and
\* value of one metric.
AssertedCriteria ==
    {criteria \in Criteria :
        \/ DOMAIN criteria = {}
        \/ DOMAIN criteria = {"tags"} /\ criteria.tags = PyList(<<"a", "b">>)
        \/ /\ DOMAIN criteria = {"fun_name", "stat", "value"}
           /\ criteria.fun_name = INCR
           /\ criteria.stat = "req.count"
           /\ criteria.value = 1}

AssertNext ==
    \/ \E r \in Recorders :
          Asserting(r) /\ \E criteria \in AssertedCriteria : FilterRecords(r, criteria)
    \/ \E r \in Recorders :
          Asserting(r) /\ \E criteria \in AssertedCriteria : HasRecord(r, criteria)

TestNext == Next \/ AssertNext

TestSpec == Init /\ [][TestNext]_vars

-----------------------------------------------------------------------------
(* Properties of the recorder's life cycle, under Spec *)

\* The record an emission call is to leave: the method called, the stat, the
\* value (1 when incr is given none) and the tags (None when none are given).
RecordOf(call) ==
    <<call.fun_name, call.args.stat,
      IF "value" \in DOMAIN call.args THEN call.args.value ELSE 1,
      IF "tags" \in DOMAIN call.args THEN call.args.tags ELSE PyNone>>

\* C1: get_records() returns one record per emission call made since the
\* recorder's list was last reset (scope entry, clear_records, construction),
\* in the order of the calls, equal records included.
C1_RecordsInCallOrder ==
    \A r \in Recorders :
        get_records(records[r]) = [i \in 1..Len(calls[r]) |-> RecordOf(calls[r][i])]

\* Two different calls were made inside an open scope and get_records returned
\* their two records.
C1_Witness ==
    /\ last.op = "get_records"
    /\ scope[last.self] > 0
    /\ Len(last.result.ret) = 2
    /\ last.result.ret[1] # last.result.ret[2]
    /\ last.result.ret = records[last.self]

\* C2: right after __enter__ the recorder's get_records() is empty, whatever
\* its list held before.
C2_EmptyAfterEnter ==
    last.op = "__enter__" => get_records(records[last.self]) = <<>>

\* A recorder holding records is entered again while its scope is still open.
C2_Witness ==
    /\ last.op = "__enter__"
    /\ last.dropped # <<>>
    /\ scope[last.self] = 2

\* C6: __exit__ leaves the record list of every recorder as it was.
C6_ExitKeepsRecords ==
    [][last'.op = "__exit__" =>
        \A r \in Recorders : get_records(records'[r]) = get_records(records[r])]_vars

\* A recorder has left its last open scope and still holds records.
C6_Witness ==
    /\ last.op = "__exit__"
    /\ scope[last.self] = 0
    /\ records[last.self] # <<>>

\* C7: after __exit__ nothing is installed, and the exception the body raised
\* (if any) is the one that leaves the `with` block.
C7_ExitUninstallsAndPropagates ==
    last.op = "__exit__" =>
        /\ _metrics_impls = PyNone
        /\ last.propagates = last.exc

\* A scope whose body raised has been left.
C7_Witness ==
    /\ last.op = "__exit__"
    /\ last.exc = BodyExc
    /\ last.propagates = BodyExc
    /\ _metrics_impls = PyNone

\* C8: clear_records empties the recorder's list and leaves what is installed,
\* the scopes and the other recorders' lists as they were.
C8_ClearOnlyEmptiesRecords ==
    [][last'.op = "clear_records" =>
        /\ get_records(records'[last'.self]) = <<>>
        /\ _metrics_impls' = _metrics_impls
        /\ scope' = scope
        /\ \A r \in Recorders \ {last'.self} : records'[r] = records[r]]_vars

\* The installed recorder, holding two records, was cleared inside its scope.
C8_Witness ==
    /\ last.op = "clear_records"
    /\ Len(last.dropped) = 2
    /\ scope[last.self] > 0
    /\ _metrics_impls = PyList(<<last.self>>)

\* C9: an emission call returns without raising and appends the one record
\* (method, stat, value or 1, tags or None) to the end of the recorder's list;
\* what is installed and the other recorders' lists are left as they were.
C9_EmissionAppendsOneRecord ==
    [][last'.op \in FunNames =>
        /\ last'.result = Return(PyNone)
        /\ records'[last'.self] =
              Append(records[last'.self], RecordOf(Call(last'.op, last'.args)))
        /\ _metrics_impls' = _metrics_impls
        /\ \A r \in Recorders \ {last'.self} : records'[r] = records[r]]_vars

\* incr was called with tags and no value on a recorder that held a record.
C9_Witness ==
    /\ last.op = INCR
    /\ DOMAIN last.args = {"stat", "tags"}
    /\ Len(records[last.self]) = 2
    /\ records[last.self][2] = <<INCR, last.args.stat, 1, last.args.tags>>

-----------------------------------------------------------------------------
(* Properties of the queries, under QuerySpec *)

\* The elements of a sequence.
Range(seq) == {seq[i] : i \in 1..Len(seq)}

\* A record matches the criteria given: fun_name, stat and value by equality,
\* tags when the record has a tag list that is the one asked for, in any order.
MatchesAll(record, criteria) ==
    /\ "fun_name" \in DOMAIN criteria => record[1] = criteria.fun_name
    /\ "stat" \in DOMAIN criteria => record[2] = criteria.stat
    /\ "value" \in DOMAIN criteria => record[3] = criteria.value
    /\ "tags" \in DOMAIN criteria =>
          /\ record[4] # PyNone
          /\ sorted(record[4].items) = sorted(criteria.tags.items)

\* The records of recs that match the criteria, in the order of recs.
Matching(recs, criteria) ==
    LET Test(record) == MatchesAll(record, criteria)
    IN  SelectSeq(recs, Test)

\* C3: filter_records returns the subsequence of get_records() whose records
\* match all the criteria given, a criterion left out matching every record.
C3_FilterReturnsMatchingSubsequence ==
    last.op = "filter_records" =>
        last.result = Return(Matching(get_records(records[last.self]), last.args))

\* C4: when only tags are asked for and every record has a tag list,
\* filter_records returns the records whose tags and the tags asked for are
\* equal as sets.
C4_TagsMatchAsSets ==
    (/\ last.op = "filter_records"
     /\ DOMAIN last.args = {"tags"}
     /\ \A i \in 1..Len(records[last.self]) : records[last.self][i][4] # PyNone)
    => LET SameSet(record) == Range(record[4].items) = Range(last.args.tags.items)
       IN  last.result = Return(SelectSeq(records[last.self], SameSet))

\* C5: has_record raises what filter_records raises for the same criteria and
\* otherwise returns True exactly when filter_records returns a non-empty list;
\* it leaves the record lists and what is installed as they were.
C5_HasRecordIffFilterNonEmpty ==
    [][last'.op = "has_record" =>
        LET found == filter_records(records[last'.self], last'.args)
        IN  /\ last'.result.raised = found.raised
            /\ found.raised = "none" => (last'.result.ret <=> Len(found.ret) > 0)
            /\ records' = records
            /\ _metrics_impls' = _metrics_impls]_vars

\* has_record was given all four criteria and returned True for a recorder
\* holding one record that matches them and one that does not.
C5_Witness ==
    /\ last.op = "has_record"
    /\ DOMAIN last.args = {"fun_name", "stat", "value", "tags"}
    /\ last.result = Return(TRUE)
    /\ Len(records[last.self]) = 2
    /\ Len(Matching(records[last.self], last.args)) = 1
    /\ _metrics_impls = PyList(<<last.self>>)

\* The records with the empty list as the tags of every record that has None.
NoneAsEmpty(recs) ==
    [i \in 1..Len(recs) |->
        IF recs[i][4] = PyNone THEN <<recs[i][1], recs[i][2], recs[i][3], PyList(<<>>)>>
        ELSE recs[i]]

\* C10: a query gives the same result when the records emitted without tags
\* hold an empty tag list instead of None.
C10_NoneTagsAsEmpty ==
    /\ last.op = "has_record" =>
          last.result = has_record(NoneAsEmpty(records[last.self]), last.args)
    /\ last.op = "filter_records" =>
          /\ last.result.raised = "none"
          /\ filter_records(NoneAsEmpty(records[last.self]), last.args)
                = Return(NoneAsEmpty(last.result.ret))

-----------------------------------------------------------------------------
(* Properties of what is installed, under Spec *)

\* r is the installed backend.
Installed(r) == _metrics_impls = PyList(<<r>>)

\* C11: what is installed is nothing or a list holding exactly one recorder.
C11_AtMostOneInstalled ==
    \/ _metrics_impls = PyNone
    \/ \E r \in Recorders : Installed(r)

\* Two recorders have their scopes open and the one entered last is installed.
C11_Witness ==
    /\ \A r \in Recorders : scope[r] > 0
    /\ last.op = "__enter__"
    /\ last.replaced # PyNone
    /\ last.replaced # PyList(<<last.self>>)
    /\ Installed(last.self)

\* C12: __enter__ returns the recorder without raising and installs it alone,
\* whatever was installed; the other recorders' lists are left as they were.
C12_EnterTakesTheSlot ==
    [][last'.op = "__enter__" =>
        /\ last'.result = Return(last'.self)
        /\ _metrics_impls' = PyList(<<last'.self>>)
        /\ \A r \in Recorders \ {last'.self} : records'[r] = records[r]]_vars

\* A recorder was entered while another one, holding records, was installed
\* with its scope open.
C12_Witness ==
    /\ last.op = "__enter__"
    /\ Installed(last.self)
    /\ \E r \in Recorders \ {last.self} :
          /\ last.replaced = PyList(<<r>>)
          /\ scope[r] > 0
          /\ records[r] # <<>>

\* C13: after the __exit__ of a recorder nothing is installed, also while the
\* scope of another recorder is open.
C13_ExitUninstallsWhoeverIsInstalled ==
    (/\ last.op = "__exit__"
     /\ \E r \in Recorders \ {last.self} : scope[r] > 0)
    => _metrics_impls = PyNone

\* A recorder has left its scope while another recorder's scope is open, and
\* nothing is installed.
C13_Witness ==
    /\ last.op = "__exit__"
    /\ scope[last.self] = 0
    /\ \E r \in Recorders \ {last.self} : scope[r] > 0 /\ records[r] # <<>>
    /\ _metrics_impls = PyNone

\* C14, as claimed: a recorder is installed exactly while its scope is open.
C14_InstalledExactlyWhileOpen ==
    \A r \in Recorders : Installed(r) <=> scope[r] > 0

\* C14, amended: a recorder is installed only while its scope is open.
C14_InstalledOnlyWhileOpen ==
    \A r \in Recorders : Installed(r) => scope[r] > 0

\* A recorder is installed, its scope and the scope of another recorder open.
C14_Witness ==
    \E r \in Recorders :
        /\ Installed(r)
        /\ scope[r] = 1
        /\ \E other \in Recorders \ {r} : scope[other] = 1

-----------------------------------------------------------------------------
(* Properties of every call, under TestSpec *)

\* C15: in every step a recorder's list stays as it was, gets one record
\* appended by an emission call on it, or is emptied by its __enter__ or
\* clear_records; get_records, filter_records, has_record, print_records and
\* __exit__ leave every list as it was.
C15_RecordsOnlyAppendedOrReset ==
    [][\A r \in Recorders :
        /\ \/ records'[r] = records[r]
           \/ /\ last'.op \in FunNames
              /\ last'.self = r
              /\ Len(records'[r]) = Len(records[r]) + 1
              /\ SubSeq(records'[r], 1, Len(records[r])) = records[r]
           \/ /\ last'.op \in {"__enter__", "clear_records"}
              /\ last'.self = r
              /\ records'[r] = <<>>
        /\ last'.op \in {"get_records", "filter_records", "has_record",
                         "print_records", "__exit__"}
              => records'[r] = records[r]]_vars

\* filter_records raised on a recorder that holds two records.
C15_Witness ==
    /\ last.op = "filter_records"
    /\ last.result = Raise("TypeError")
    /\ Len(records[last.self]) = 2
    /\ records[last.self] = [i \in 1..2 |-> RecordOf(calls[last.self][i])]

-----------------------------------------------------------------------------
(* Failures of the queries, under QuerySpec *)

\* C16: filter_records and has_record return a result, whatever the records
\* and the criteria.
C16_QueriesNeverRaise ==
    last.op \in {"filter_records", "has_record"} => last.result.raised = "none"

=============================================================================
